---- MODULE Spec2Model ----
(***************************************************************************)
(* Time-series statistics of climpred/stats.py and esmtools/stats.py:      *)
(* lagged Pearson correlation (xr_corr, xr_autocorr), the p-value with an  *)
(* effective sample size (_xr_eff_p_value, xr_eff_pearsonr), the          *)
(* comparison of two correlation fields (z_significance), the              *)
(* decorrelation time (xr_decorrelation_time), the removal of a polynomial *)
(* fit (xr_rm_poly) and the cosine weighting (xr_cos_weight).  x and y     *)
(* share the coordinate of the correlation axis.                           *)
(*                                                                         *)
(* A field is a function from grid cells 1..k to a series along the        *)
(* correlation axis (a sequence of integers).  Arithmetic is exact; the    *)
(* IEEE special values the numpy operations produce (NaN, +Inf, -Inf) are  *)
(* kept as values of their own.  A correlation coefficient, a product of   *)
(* two of them and a t-statistic are all of the form s * sqrt(n / d) with  *)
(* s in {-1, 0, 1}; they are held as the record [k, s, n, d] with n / d in *)
(* lowest terms, k = "fin", "inf" or "nan".                                *)
(***************************************************************************)
EXTENDS Integers, Sequences, FiniteSets, TLC

\* ---- bounds of the model ----
MaxLen == 4      \* longest series along the correlation axis
MaxVal == 1      \* series values are drawn from 0..MaxVal
MaxVars == 3     \* most data variables in a Dataset given to xr_eff_pearsonr
MaxN == 6        \* largest sample count given to the effective sample size
RhoDen == 3      \* autocorrelations k / RhoDen, k in -RhoDen..RhoDen
MaxIter == 4     \* largest number of iterations given to xr_decorrelation_time
MaxRank == 2     \* most axes of x next to the correlation axis

VARIABLES
    fn,         \* the public function that was called
    xtype,      \* type of the first argument
    ytype,      \* type of the second argument
    x,          \* first argument: field (cell -> series)
    y,          \* second argument: field
    coord,      \* coordinate of the correlation axis: [has, lab]
    lag,        \* argument lag
    two_sided,  \* argument two_sided
    return_p,   \* argument return_p
    nvars,      \* number of data variables of the Dataset (xr_eff_pearsonr)
    pc,         \* position in the called function
    err,        \* exception that ended the call, "none" if none
    slices,     \* number of isel() slicings performed so far
    normal,     \* local `normal`: [data, has, lab]
    shifted,    \* local `shifted`: [data, has, lab]
    operands,   \* the two fields handed to pearson_r for r
    r,          \* correlation field
    n,          \* sample count used by the effective sample size
    xauto,      \* lag-1 autocorrelation of x (field)
    yauto,      \* lag-1 autocorrelation of y (field)
    n_eff,      \* effective sample size (field)
    t,          \* t-statistic (field)
    p,          \* p-value (field)
    pdims,      \* axis names of p
    xdims,      \* names of the axes of x other than the correlation axis
    r1,         \* z_significance: first correlation field [dims, v], in tenths
    r2,         \* z_significance: second correlation field [dims, v]
    Nz,         \* z_significance: argument N
    ci,         \* z_significance: argument ci
    sig,        \* z_significance: the Boolean field it returns
    max_lag,    \* xr_decorrelation_time: argument r (the number of iterations)
    one,        \* xr_decorrelation_time: local `one`
    it,         \* xr_decorrelation_time: the fields concatenated along 'it'
    tau,        \* xr_decorrelation_time: the field it returns
    ds,         \* xr_rm_poly / xr_cos_weight: the array as it was passed
    buf,        \* the caller's array after the statements executed so far
    order,      \* xr_rm_poly: argument order
    one_dimensional,  \* xr_cos_weight: argument one_dimensional
    lat,        \* xr_cos_weight: local `lat`
    detrended_ts,     \* xr_rm_poly: the array it returns
    aw_da       \* xr_cos_weight: the value it returns

zvars == <<r1, r2, Nz, ci, sig>>

tauvars == <<max_lag, one, it, tau>>

polyvars == <<ds, buf, order, one_dimensional, lat, detrended_ts, aw_da>>

\* the variables of the functions other than the correlation functions
others == <<zvars, tauvars, polyvars>>

vars == <<fn, xtype, ytype, x, y, coord, lag, two_sided, return_p, nvars,
          pc, err, slices, normal, shifted, operands, r, n, xauto, yauto,
          n_eff, t, p, pdims, xdims, others>>

\* ---- integer helpers ----
Abs(i) == IF i < 0 THEN -i ELSE i

Sgn(i) == IF i < 0 THEN -1 ELSE IF i > 0 THEN 1 ELSE 0

Min(a, b) == IF a < b THEN a ELSE b

Max(a, b) == IF a > b THEN a ELSE b

RECURSIVE GCD(_, _)
GCD(a, b) == IF b = 0 THEN a ELSE GCD(b, a % b)

RECURSIVE Sum(_)
Sum(s) == IF Len(s) = 0 THEN 0 ELSE Head(s) + Sum(Tail(s))

RECURSIVE Dot(_, _)
Dot(a, b) == IF Len(a) = 0 \/ Len(b) = 0 THEN 0
             ELSE Head(a) * Head(b) + Dot(Tail(a), Tail(b))

RECURSIVE GCDSeq(_)
GCDSeq(s) == IF Len(s) = 0 THEN 0 ELSE GCD(Abs(Head(s)), GCDSeq(Tail(s)))

\* ---- values s * sqrt(n / d), NaN and +-Inf ----
NaN == [k |-> "nan", s |-> 0, n |-> 0, d |-> 1]

Inf(s) == [k |-> "inf", s |-> s, n |-> 1, d |-> 0]

Root(s, num, den) ==
    IF s = 0 \/ num = 0 THEN [k |-> "fin", s |-> 0, n |-> 0, d |-> 1]
    ELSE LET g == GCD(num, den)
         IN  [k |-> "fin", s |-> s, n |-> num \div g, d |-> den \div g]

One == Root(1, 1, 1)

IsNaN(v) == v.k = "nan"

\* |v| = 1
IsUnit(v) == v.k = "fin" /\ v.s # 0 /\ v.n = v.d

\* elementwise product a * b of two correlation coefficients
Mul(a, b) ==
    IF IsNaN(a) \/ IsNaN(b) THEN NaN
    ELSE Root(a.s * b.s, a.n * b.n, a.d * b.d)

\* ---- the labeled-array container ----
\* Python slice(start, stop) applied to a sequence: a negative bound counts
\* from the end, bounds are clamped to the length.
PyIndex(i, len) == IF i < 0 THEN Max(i + len, 0) ELSE Min(i, len)

PySlice(s, start, stop) ==
    LET a == PyIndex(start, Len(s))
        b == PyIndex(stop, Len(s))
    IN  IF a >= b THEN <<>> ELSE SubSeq(s, a + 1, b)

\* da.isel({dim: slice(start, stop)}) on a field
Isel(f, start, stop) == [c \in DOMAIN f |-> PySlice(f[c], start, stop)]

\* size of the correlation axis of a field
DimSize(f) == Len(f[1])

\* np.arange(a, b)
Arange(a, b) == [i \in 1..Max(b - a, 0) |-> a + i - 1]

NoCoord == [has |-> FALSE, lab |-> <<>>]

Empty == [data |-> <<>>, has |-> FALSE, lab |-> <<>>]

\* ---- helper functions of climpred/stats.py ----
IsXarray(ty) == ty \in {"DataArray", "Dataset"}

\* faulty variant: no check of the type
CheckXarrayNone(ty) == "none"

\* _check_xarray: the exception it raises for an argument of type ty
CheckXarray(ty) == IF ~IsXarray(ty) THEN "IOError" ELSE "none"

\* xskillscore.pearson_r of two series of one cell:
\* sum((a - mean a)(b - mean b)) / sqrt(sum (a - mean a)^2 sum (b - mean b)^2),
\* numerator and denominator both multiplied by Len^2
PearsonRCell(a, b) ==
    LET m   == Len(a)
        cov == m * Dot(a, b) - Sum(a) * Sum(b)
        va  == m * Dot(a, a) - Sum(a) * Sum(a)
        vb  == m * Dot(b, b) - Sum(b) * Sum(b)
    IN  IF m = 0 \/ va * vb = 0 THEN NaN
        ELSE Root(Sgn(cov), cov * cov, va * vb)

PearsonR(a, b) == [c \in DOMAIN a |-> PearsonRCell(a[c], b[c])]

\* ---- _xr_eff_p_value (climpred) / the body of xr_eff_pearsonr (esmtools) ----
\* v - v.mean(dim) for one cell, kept as integer numerators over a common
\* positive denominator (Len / g): the values (Len * v[i] - sum v) / g
CentreCell(v) ==
    LET num == [i \in 1..Len(v) |-> Len(v) * v[i] - Sum(v)]
        g   == GCDSeq(num)
    IN  IF g = 0 THEN num ELSE [i \in 1..Len(v) |-> num[i] \div g]

Centre(f) == [c \in DOMAIN f |-> CentreCell(f[c])]

\* _compute_autocorr(v, dim, n): shifted = v[1:n], normal = v[0:n-1]; both
\* have length n-1, which is the length of the index arange(1, n) given to
\* an axis without coordinate, so the two coordinate assignments succeed
ComputeAutocorr(v, size) == PearsonR(Isel(v, 1, size), Isel(v, 0, size - 1))

\* m <= size * (1 - q) / (1 + q), for 1 + q > 0 and m + size > 0:
\* (m + size) * q <= size - m
QuotGeq(size, q, m) ==
    LET A == m + size
        B == size - m
    IN  IF q.s <= 0
        THEN IF B >= 0 THEN TRUE ELSE q.n * A * A >= q.d * B * B
        ELSE IF B <= 0 THEN FALSE ELSE q.n * A * A <= q.d * B * B

\* np.floor(n * (1 - q) / (1 + q)): NaN for q NaN; +Inf for q = -1 (2n / 0);
\* a value above size is kept as "big", with size + 1 standing for it
FloorQuot(size, q) ==
    IF IsNaN(q) THEN [k |-> "nan", v |-> 0]
    ELSE IF q.s = -1 /\ q.n = q.d THEN [k |-> "big", v |-> size + 1]
    ELSE IF QuotGeq(size, q, size + 1) THEN [k |-> "big", v |-> size + 1]
    ELSE [k |-> "fin",
          v |-> CHOOSE m \in 0..size :
                    QuotGeq(size, q, m) /\ ~QuotGeq(size, q, m + 1)]

\* faulty variant: the clip of line 195 left out
WhereNoClip(f, size) == f.v

\* n_eff.where(n_eff <= n, n): the comparison is False for NaN
Where(f, size) == IF f.k = "fin" /\ f.v <= size THEN f.v ELSE size

\* the effective sample size of one cell
EffectiveN(size, rx, ry) == Where(FloorQuot(size, Mul(rx, ry)), size)

\* t = r * sqrt((n_eff - 2) / (1 - r**2)) for one cell
TStat(rv, ne) ==
    IF IsNaN(rv) THEN NaN
    ELSE LET om == rv.d - rv.n     \* 1 - r^2 = om / rv.d
             k2 == ne - 2
         IN  IF om = 0
             THEN IF k2 > 0 THEN Inf(rv.s) ELSE NaN
             ELSE IF k2 < 0 THEN NaN
                  ELSE Root(rv.s * Sgn(k2), rv.n * k2, om)

PNaN == [k |-> "nan", n |-> 0, d |-> 1, df |-> 0, mult |-> 0]

\* scipy.stats.t.sf(|tv|, df) * mult, kept as a term: NaN for tv NaN or
\* df <= 0; 0 for |tv| infinite (d = 0); mult / 2 for tv = 0 (n = 0)
TSf(tv, df, mult) ==
    IF IsNaN(tv) \/ df <= 0 THEN PNaN
    ELSE [k |-> "sf", n |-> tv.n, d |-> tv.d, df |-> df, mult |-> mult]

PIsNaN(pv) == pv.k = "nan"

PIsZero(pv) == pv.k = "sf" /\ pv.d = 0

\* p = 1 (two-sided) or 1/2 (one-sided): sf(0) * mult
PIsSfZero(pv) == pv.k = "sf" /\ pv.n = 0 /\ pv.d # 0

\* faulty variant: the autocorrelations of the first cell used for every cell
XrEffPValueFirstCell(xf, yf, rf, ts) ==
    LET size == DimSize(xf)
        xa   == ComputeAutocorr(Centre(xf), size)
        ya   == ComputeAutocorr(Centre(yf), size)
        ne   == [c \in DOMAIN xf |-> EffectiveN(size, xa[1], ya[1])]
        tt   == [c \in DOMAIN xf |-> TStat(rf[c], ne[c])]
        pp   == [c \in DOMAIN xf |->
                    TSf(tt[c], ne[c] - 1, IF ts THEN 2 ELSE 1)]
    IN  [n |-> size, xauto |-> xa, yauto |-> ya, n_eff |-> ne, t |-> tt, p |-> pp]

\* _xr_eff_p_value(x, y, r, dim, two_sided): every local it computes
XrEffPValue(xf, yf, rf, ts) ==
    LET size == DimSize(xf)
        xa   == ComputeAutocorr(Centre(xf), size)
        ya   == ComputeAutocorr(Centre(yf), size)
        ne   == [c \in DOMAIN xf |-> EffectiveN(size, xa[c], ya[c])]
        tt   == [c \in DOMAIN xf |-> TStat(rf[c], ne[c])]
        pp   == [c \in DOMAIN xf |->
                    TSf(tt[c], ne[c] - 1, IF ts THEN 2 ELSE 1)]
    IN  [n |-> size, xauto |-> xa, yauto |-> ya, n_eff |-> ne, t |-> tt, p |-> pp]

\* _get_dims(r): pearson_r consumes the correlation axis, the axes of r
\* are the other axes of x, in their order
GetDims(f) == xdims

\* xr.DataArray(ndarray): the axes get the placeholder names dim_0, dim_1, ...
DimName(i) == "dim_" \o ToString(i)

Placeholder(rank) == [i \in 1..rank |-> DimName(i - 1)]

\* p.rename({'dim_' + str(i): dimlist[i]}) for i in range(len(dimlist))
RECURSIVE RenameLoop(_, _, _)
RenameLoop(dims, dimlist, i) ==
    IF i >= Len(dimlist) THEN dims
    ELSE RenameLoop([j \in 1..Len(dims) |->
                        IF dims[j] = DimName(i) THEN dimlist[i + 1] ELSE dims[j]],
                    dimlist, i + 1)

\* a step of the loop renames dim_i to a name that another axis of p has
RenameClash(dims, dimlist) ==
    \E i \in 0..(Len(dimlist) - 1) :
        LET cur == RenameLoop(dims, SubSeq(dimlist, 1, i), 0)
        IN  /\ dimlist[i + 1] # DimName(i)
            /\ \E j \in 1..Len(cur) : cur[j] = DimName(i)
            /\ \E j \in 1..Len(cur) : cur[j] = dimlist[i + 1]

\* ---- inputs ----
Vals == 0..MaxVal

SeriesOfLen(m) == [1..m -> Vals]

Lens == 1..MaxLen

Lags == 0..(MaxLen + 1)

Types == {"DataArray", "ndarray", "list"}

\* the correlation axis has no coordinate, the labels 1..m, or years
CoordKinds(m) ==
    {NoCoord,
     [has |-> TRUE, lab |-> Arange(1, m + 1)],
     [has |-> TRUE, lab |-> Arange(2001, 2001 + m)]}

\* the series 1, 2, ..., 10
Ramp == Arange(1, 11)

\* series pairs of a second grid cell: r = 1, r = NaN, r = -1, and a plain one
Probes(m) ==
    {<<Arange(1, m + 1), Arange(1, m + 1)>>,
     <<Arange(1, m + 1), [i \in 1..m |-> 0]>>,
     <<Arange(1, m + 1), [i \in 1..m |-> m - i]>>,
     <<[i \in 1..m |-> i % 2], [i \in 1..m |-> (i * i) % 3]>>}

NoField == <<>>

Locals0 ==
    /\ pc = "start"
    /\ err = "none"
    /\ slices = 0
    /\ normal = Empty
    /\ shifted = Empty
    /\ operands = <<>>
    /\ r = NoField
    /\ n = 0
    /\ xauto = NoField
    /\ yauto = NoField
    /\ n_eff = NoField
    /\ t = NoField
    /\ p = NoField
    /\ pdims = <<>>

\* an array: the names of its axes (none for a single number) and its values
NoArray == [dims |-> <<>>, v |-> <<>>]

\* the variables of z_significance when another function is called
ZVars0 == r1 = NoArray /\ r2 = NoArray /\ Nz = 0 /\ ci = 0 /\ sig = <<>>

\* the variables of xr_decorrelation_time when another function is called
TauVars0 == max_lag = 0 /\ one = <<>> /\ it = <<>> /\ tau = <<>>

NoInput == [data |-> <<>>, lat |-> <<>>]

\* the variables of xr_rm_poly, xr_cos_weight when another function is called
PolyVars0 ==
    /\ ds = NoInput /\ buf = NoInput /\ order = 0 /\ one_dimensional = TRUE
    /\ lat = <<>> /\ detrended_ts = <<>> /\ aw_da = <<>>

\* a single series has no other axis, a grid of series has the axis lat
GridDims(f) == IF Len(f) > 1 THEN <<"lat">> ELSE <<>>

\* the second series given with xs: xs itself, xs reversed, xs rotated by one
\* step, the ramp 1..m, a constant and an alternating series
Reverse(xs) == [i \in 1..Len(xs) |-> xs[Len(xs) + 1 - i]]

Rotate(xs) == [i \in 1..Len(xs) |-> xs[(i % Len(xs)) + 1]]

Partners(xs) ==
    {xs, Reverse(xs), Rotate(xs), Arange(1, Len(xs) + 1),
     [i \in 1..Len(xs) |-> 0], [i \in 1..Len(xs) |-> i % 2]}

Years(m) == [has |-> TRUE, lab |-> Arange(2001, 2001 + m)]

\* xr_corr(x, y, lag=..., return_p=...) on single series: every lag and
\* every kind of coordinate
InitCorr ==
    /\ fn = "xr_corr"
    /\ xtype = "DataArray" /\ ytype = "DataArray"
    /\ \E m \in Lens :
         /\ \E xs \in SeriesOfLen(m) :
              \E ys \in {Rotate(xs), Arange(1, m + 1)} :
                x = <<xs>> /\ y = <<ys>>
         /\ coord \in CoordKinds(m)
    /\ lag \in Lags
    /\ return_p \in BOOLEAN
    /\ two_sided = TRUE
    /\ nvars = 0
    /\ Locals0
    /\ xdims = GridDims(x)
    /\ ZVars0 /\ TauVars0 /\ PolyVars0

\* xr_corr(x, y, lag=..., two_sided=..., return_p=True) on single series
InitCorrSig ==
    /\ fn = "xr_corr"
    /\ xtype = "DataArray" /\ ytype = "DataArray"
    /\ \E m \in Lens :
         /\ \E xs \in SeriesOfLen(m) : \E ys \in Partners(xs) :
                x = <<xs>> /\ y = <<ys>>
         /\ coord = Years(m)
    /\ lag \in {0, 1}
    /\ return_p = TRUE
    /\ two_sided \in BOOLEAN
    /\ nvars = 0
    /\ Locals0
    /\ xdims = GridDims(x)
    /\ ZVars0 /\ TauVars0 /\ PolyVars0

\* xr_corr with an argument that is no xarray object
InitCorrBad ==
    /\ fn = "xr_corr"
    /\ xtype \in Types /\ ytype \in Types
    /\ ~(IsXarray(xtype) /\ IsXarray(ytype))
    /\ \E m \in Lens : \E xs \in SeriesOfLen(m) : x = <<xs>> /\ y = <<xs>>
    /\ coord = NoCoord
    /\ lag \in {0, 1}
    /\ return_p = FALSE /\ two_sided = TRUE
    /\ nvars = 0
    /\ Locals0
    /\ xdims = GridDims(x)
    /\ ZVars0 /\ TauVars0 /\ PolyVars0

\* xr_corr(x, y, return_p=True) on a grid of two cells
InitCorrGrid ==
    /\ fn = "xr_corr"
    /\ xtype = "DataArray" /\ ytype = "DataArray"
    /\ \E m \in Lens :
         /\ \E xs \in SeriesOfLen(m), pr \in Probes(m) :
              \E ys \in {xs, Rotate(xs)} :
                x = <<xs, pr[1]>> /\ y = <<ys, pr[2]>>
         /\ coord = Years(m)
    /\ lag \in {0, 1}
    /\ return_p = TRUE
    /\ two_sided \in BOOLEAN
    /\ nvars = 0
    /\ Locals0
    /\ xdims = GridDims(x)
    /\ ZVars0 /\ TauVars0 /\ PolyVars0

\* xr_corr(x, x, lag=0, return_p=True) for x = 1, 2, ..., 10
InitCorrRamp ==
    /\ fn = "xr_corr"
    /\ xtype = "DataArray" /\ ytype = "DataArray"
    /\ x = <<Ramp>> /\ y = <<Ramp>>
    /\ coord \in CoordKinds(Len(Ramp))
    /\ lag = 0
    /\ return_p = TRUE
    /\ two_sided \in BOOLEAN
    /\ nvars = 0
    /\ Locals0
    /\ xdims = GridDims(x)
    /\ ZVars0 /\ TauVars0 /\ PolyVars0

\* the names of rank axes that were given names
AxisNames == <<"lat", "lon", "lev", "member">>

Named(rank) == SubSeq(AxisNames, 1, rank)

\* the names of the other axes of an array that was built without axis
\* names (dim_0, dim_1, ...) and is correlated along its axis k
Default(rank, k) == [i \in 1..rank |-> DimName(IF i - 1 < k THEN i - 1 ELSE i)]

\* xr_corr(x, y, return_p=True) on arrays with up to MaxRank axes next to
\* the correlation axis, with given or with default names
InitCorrRank ==
    /\ fn = "xr_corr"
    /\ xtype = "DataArray" /\ ytype = "DataArray"
    /\ \E rank \in 0..MaxRank :
         /\ xdims \in {Named(rank)} \cup {Default(rank, k) : k \in 0..rank}
         /\ \E xs \in SeriesOfLen(3) :
              /\ x = IF rank = 0 THEN <<xs>> ELSE <<xs, Rotate(xs)>>
              /\ y = IF rank = 0 THEN <<Rotate(xs)>> ELSE <<Rotate(xs), xs>>
    /\ coord \in {NoCoord, Years(3)}
    /\ lag = 0
    /\ return_p = TRUE
    /\ two_sided = TRUE
    /\ nvars = 0
    /\ Locals0
    /\ ZVars0 /\ TauVars0 /\ PolyVars0

\* xr_autocorr(ds, lag=..., return_p=...)
InitAutocorr ==
    /\ fn = "xr_autocorr"
    /\ xtype \in Types /\ ytype = xtype
    /\ \E m \in Lens :
         /\ \E xs \in SeriesOfLen(m) : x = <<xs>> /\ y = <<xs>>
         /\ coord \in CoordKinds(m)
    /\ lag \in Lags
    /\ return_p \in BOOLEAN
    /\ two_sided = TRUE
    /\ nvars = 0
    /\ Locals0
    /\ xdims = GridDims(x)
    /\ ZVars0 /\ TauVars0 /\ PolyVars0

\* xr_eff_pearsonr(ds, two_sided=...): ds holds nvars data variables (the
\* first two with the series x and y) and, with coord.has, the coordinate
\* variable of the correlation axis
InitEffPearsonr ==
    /\ fn = "xr_eff_pearsonr"
    /\ xtype = "Dataset" /\ ytype = "Dataset"
    /\ nvars \in 0..MaxVars
    /\ \E m \in Lens :
         /\ \E xs \in SeriesOfLen(m) : \E ys \in {xs, Rotate(xs), Reverse(xs)} :
                x = <<xs>> /\ y = <<ys>>
         /\ coord \in {NoCoord, Years(m)}
    /\ lag = 0
    /\ return_p = TRUE
    /\ two_sided \in BOOLEAN
    /\ Locals0
    /\ xdims = GridDims(x)
    /\ ZVars0 /\ TauVars0 /\ PolyVars0

Init ==
    \/ InitCorr
    \/ InitCorrSig
    \/ InitCorrBad
    \/ InitCorrGrid
    \/ InitCorrRamp
    \/ InitCorrRank
    \/ InitAutocorr
    \/ InitEffPearsonr

inputs == <<fn, xtype, ytype, x, y, coord, lag, two_sided, return_p, nvars,
            xdims>>

sigvars == <<n, xauto, yauto, n_eff, t, p, pdims>>

\* ---- lag alignment (xr_corr lines 144-149, xr_autocorr lines 343-354) ----
\* faulty variant: the first series cut at the start, the second at the end
LagSliceSwapped(a, b, lagv, N) ==
    [normal  |-> [data |-> Isel(a, lagv, N), has |-> coord.has,
                  lab  |-> PySlice(coord.lab, lagv, N)],
     shifted |-> [data |-> Isel(b, 0, N - lagv), has |-> coord.has,
                  lab  |-> PySlice(coord.lab, 0, N - lagv)]]

\* normal = a.isel({dim: slice(0, N - lag)}); shifted = b.isel({dim: slice(lag, N)})
LagSlice(a, b, lagv, N) ==
    [normal  |-> [data |-> Isel(a, 0, N - lagv), has |-> coord.has,
                  lab  |-> PySlice(coord.lab, 0, N - lagv)],
     shifted |-> [data |-> Isel(b, lagv, N), has |-> coord.has,
                  lab  |-> PySlice(coord.lab, lagv, N)]]

\* the index given to an axis without coordinate: np.arange(1, N)
DummyIndex(N, lagv) == Arange(1, N)

\* faulty variant: both outputs always get the index 1..len
AssignDimSynthetic(nrm, shf, N, lagv) ==
    LET lab == Arange(1, DimSize(nrm.data) + 1)
    IN  IF Len(lab) # DimSize(shf.data)
        THEN [err |-> "ValueError",
              normal |-> [nrm EXCEPT !.has = TRUE, !.lab = lab], shifted |-> shf]
        ELSE [err |-> "none",
              normal  |-> [nrm EXCEPT !.has = TRUE, !.lab = lab],
              shifted |-> [shf EXCEPT !.has = TRUE, !.lab = lab]]

\* if dim not in coords: normal[dim] = np.arange(1, N)
\* shifted[dim] = normal[dim]
\* A coordinate whose length differs from the axis it is assigned to makes
\* xarray raise ValueError.
AssignDim(nrm, shf, N, lagv) ==
    LET lab == IF ~nrm.has THEN DummyIndex(N, lagv) ELSE nrm.lab
    IN  IF ~nrm.has /\ Len(lab) # DimSize(nrm.data)
        THEN [err |-> "ValueError", normal |-> nrm, shifted |-> shf]
        ELSE IF Len(lab) # DimSize(shf.data)
        THEN [err |-> "ValueError",
              normal |-> [nrm EXCEPT !.has = TRUE, !.lab = lab], shifted |-> shf]
        ELSE [err |-> "none",
              normal  |-> [nrm EXCEPT !.has = TRUE, !.lab = lab],
              shifted |-> [shf EXCEPT !.has = TRUE, !.lab = lab]]

\* ---- xr_corr ----
\* lines 141-142: _check_xarray(x); _check_xarray(y)
CorrCheck ==
    /\ fn = "xr_corr" /\ pc = "start"
    /\ LET e == IF CheckXarray(xtype) # "none" THEN CheckXarray(xtype)
                ELSE CheckXarray(ytype)
       IN  /\ err' = e
           /\ pc' = IF e # "none" THEN "error" ELSE "checked"
    /\ UNCHANGED <<inputs, others, slices, normal, shifted, operands, r,
                   sigvars>>

\* lines 143-146
CorrSlice ==
    /\ fn = "xr_corr" /\ pc = "checked" /\ lag # 0
    /\ LET s == LagSlice(x, y, lag, DimSize(x))
       IN  normal' = s.normal /\ shifted' = s.shifted
    /\ slices' = slices + 2
    /\ pc' = "sliced"
    /\ UNCHANGED <<inputs, others, err, operands, r, sigvars>>

\* lines 147-149
CorrAssign ==
    /\ fn = "xr_corr" /\ pc = "sliced"
    /\ LET a == AssignDim(normal, shifted, DimSize(x), lag)
       IN  /\ normal' = a.normal /\ shifted' = a.shifted
           /\ err' = a.err
           /\ pc' = IF a.err # "none" THEN "error" ELSE "aligned"
    /\ UNCHANGED <<inputs, others, slices, operands, r, sigvars>>

\* lines 150-152 and, without return_p, line 163
CorrPearson ==
    /\ fn = "xr_corr"
    /\ \/ pc = "aligned" /\ operands' = <<normal.data, shifted.data>>
       \/ pc = "checked" /\ lag = 0 /\ operands' = <<x, y>>
    /\ r' = PearsonR(operands'[1], operands'[2])
    /\ pc' = IF return_p THEN "correlated" ELSE "done"
    /\ UNCHANGED <<inputs, others, err, slices, normal, shifted, sigvars>>

\* faulty variant: the p-value computed from the lag-aligned series
CorrPValueTruncated ==
    /\ fn = "xr_corr" /\ pc = "correlated"
    /\ LET e == XrEffPValue(operands[1], operands[2], r, two_sided)
       IN  /\ n' = e.n /\ xauto' = e.xauto /\ yauto' = e.yauto
           /\ n_eff' = e.n_eff /\ t' = e.t /\ p' = e.p
    /\ pdims' = Placeholder(Len(GetDims(x)))
    /\ pc' = "pvalued"
    /\ UNCHANGED <<inputs, others, err, slices, normal, shifted, operands, r>>

\* line 154
CorrPValue ==
    /\ fn = "xr_corr" /\ pc = "correlated"
    /\ LET e == XrEffPValue(x, y, r, two_sided)
       IN  /\ n' = e.n /\ xauto' = e.xauto /\ yauto' = e.yauto
           /\ n_eff' = e.n_eff /\ t' = e.t /\ p' = e.p
    /\ pdims' = Placeholder(Len(GetDims(x)))
    /\ pc' = "pvalued"
    /\ UNCHANGED <<inputs, others, err, slices, normal, shifted, operands, r>>

\* lines 158-161.  A rename of dim_i to a name that another axis of p
\* carries raises ValueError when the two axes differ in length; when they
\* have the same length both axes carry that name afterwards.
CorrRename ==
    /\ fn = "xr_corr" /\ pc = "pvalued"
    /\ \/ /\ pdims' = RenameLoop(pdims, GetDims(x), 0)
          /\ pc' = "done"
          /\ err' = err
       \/ /\ RenameClash(pdims, GetDims(x))
          /\ pdims' = pdims
          /\ pc' = "error"
          /\ err' = "ValueError"
    /\ UNCHANGED <<inputs, others, slices, normal, shifted, operands, r,
                   n, xauto, yauto, n_eff, t, p>>

\* ---- xr_autocorr ----
\* xskillscore.pearson_r_p_value(a, b, dim) of one cell, kept as a term in r
\* and the number of pairs
PearsonRPValueCell(a, b) ==
    LET rv == PearsonRCell(a, b)
    IN  IF IsNaN(rv) THEN PNaN
        ELSE [k |-> "pearson", n |-> rv.n, d |-> rv.d, df |-> Len(a) - 2, mult |-> 2]

\* line 342
AutoCheck ==
    /\ fn = "xr_autocorr" /\ pc = "start"
    /\ err' = CheckXarray(xtype)
    /\ pc' = IF err' # "none" THEN "error" ELSE "checked"
    /\ UNCHANGED <<inputs, others, slices, normal, shifted, operands, r,
                   sigvars>>

\* lines 343-345
AutoSlice ==
    /\ fn = "xr_autocorr" /\ pc = "checked"
    /\ LET s == LagSlice(x, x, lag, DimSize(x))
       IN  normal' = s.normal /\ shifted' = s.shifted
    /\ slices' = slices + 2
    /\ pc' = "sliced"
    /\ UNCHANGED <<inputs, others, err, operands, r, sigvars>>

\* lines 352-354
AutoAssign ==
    /\ fn = "xr_autocorr" /\ pc = "sliced"
    /\ LET a == AssignDim(normal, shifted, DimSize(x), lag)
       IN  /\ normal' = a.normal /\ shifted' = a.shifted
           /\ err' = a.err
           /\ pc' = IF a.err # "none" THEN "error" ELSE "aligned"
    /\ UNCHANGED <<inputs, others, slices, operands, r, sigvars>>

\* lines 355-363
AutoPearson ==
    /\ fn = "xr_autocorr" /\ pc = "aligned"
    /\ operands' = <<normal.data, shifted.data>>
    /\ r' = PearsonR(normal.data, shifted.data)
    /\ p' = IF return_p
            THEN [c \in DOMAIN x |->
                     PearsonRPValueCell(normal.data[c], shifted.data[c])]
            ELSE p
    /\ pc' = "done"
    /\ UNCHANGED <<inputs, others, err, slices, normal, shifted,
                   n, xauto, yauto, n_eff, t, pdims>>

\* ---- xr_eff_pearsonr (esmtools) ----
\* _get_vars(ds) = list(ds.variables): the coordinate variables of the
\* Dataset are among ds.variables, next to its data variables
GetVars(nv, hascoord) == nv + (IF hascoord THEN 1 ELSE 0)

\* lines 253-263: varlist[0], varlist[1] are read before the length is tested
EffVarCheck(len) ==
    IF len < 2 THEN "IndexError"
    ELSE IF len < 2 \/ len > 2 THEN "ValueError"
    ELSE "none"

EffGetVars ==
    /\ fn = "xr_eff_pearsonr" /\ pc = "start"
    /\ err' = EffVarCheck(GetVars(nvars, coord.has))
    /\ pc' = IF err' # "none" THEN "error" ELSE "checked"
    /\ UNCHANGED <<inputs, others, slices, normal, shifted, operands, r,
                   sigvars>>

\* lines 266-292.  With a coordinate on the correlation axis the two slices
\* xa[1:n], xa[0:n-1] carry different labels and apply_ufunc (join='exact')
\* raises ValueError at line 271.
EffCompute ==
    /\ fn = "xr_eff_pearsonr" /\ pc = "checked"
    /\ IF coord.has
       THEN /\ err' = "ValueError" /\ pc' = "error"
            /\ r' = PearsonR(x, y)
            /\ n' = DimSize(x)
            /\ slices' = slices + 2
            /\ UNCHANGED <<operands, xauto, yauto, n_eff, t, p, pdims>>
       ELSE /\ operands' = <<x, y>>
            /\ r' = PearsonR(x, y)
            /\ LET e == XrEffPValue(x, y, r', two_sided)
               IN  /\ n' = e.n /\ xauto' = e.xauto /\ yauto' = e.yauto
                   /\ n_eff' = e.n_eff /\ t' = e.t /\ p' = e.p
            /\ pdims' = RenameLoop(Placeholder(Len(GetDims(x))), GetDims(x), 0)
            /\ slices' = slices + 4
            /\ pc' = "done"
            /\ err' = err
    /\ UNCHANGED <<inputs, others, normal, shifted>>

Next ==
    \/ CorrCheck
    \/ CorrSlice
    \/ CorrAssign
    \/ CorrPearson
    \/ CorrPValue
    \/ CorrRename
    \/ AutoCheck
    \/ AutoSlice
    \/ AutoAssign
    \/ AutoPearson
    \/ EffGetVars
    \/ EffCompute

Spec == Init /\ [][Next]_vars

\* ---- the effective sample size as a function of n, rho_x, rho_y ----
RhoVals ==
    {NaN} \cup {Root(Sgn(k), k * k, RhoDen * RhoDen) : k \in (-RhoDen)..RhoDen}

InitEss ==
    /\ fn = "effective_n"
    /\ n \in 1..MaxN
    /\ \E rx \in RhoVals, ry \in RhoVals : xauto = <<rx>> /\ yauto = <<ry>>
    /\ xtype = "DataArray" /\ ytype = "DataArray"
    /\ x = NoField /\ y = NoField /\ coord = NoCoord
    /\ lag = 0 /\ return_p = TRUE /\ two_sided = TRUE /\ nvars = 0
    /\ pc = "start" /\ err = "none" /\ slices = 0
    /\ normal = Empty /\ shifted = Empty /\ operands = <<>>
    /\ r = NoField /\ n_eff = NoField /\ t = NoField /\ p = NoField
    /\ pdims = <<>> /\ xdims = <<>>
    /\ ZVars0 /\ TauVars0 /\ PolyVars0

\* climpred lines 192-195, esmtools lines 275-278
EssApply ==
    /\ fn = "effective_n" /\ pc = "start"
    /\ n_eff' = <<EffectiveN(n, xauto[1], yauto[1])>>
    /\ pc' = "done"
    /\ UNCHANGED <<inputs, others, err, slices, normal, shifted, operands, r,
                   n, xauto, yauto, t, p, pdims>>

NextEss == EssApply

SpecEss == InitEss /\ [][NextEss]_vars

\* ---- z_significance (climpred lines 395-433) ----
\* A correlation coefficient is given in tenths (9 is 0.9).  Logarithms and
\* critical values are held in thousandths, rounded to the nearest; a Fisher
\* z, which halves a difference of two logarithms, in units of 1/2000.
\* Values are records [k, s, v]: k = "fin" with the value v, "inf" with the
\* sign s, or "nan".
ZNaN == [k |-> "nan", s |-> 0, v |-> 0]

ZInf(sg) == [k |-> "inf", s |-> sg, v |-> 0]

ZFin(val) == [k |-> "fin", s |-> Sgn(val), v |-> val]

\* 1000 * ln(j / 10) for j in 1..22
LnTable ==
    <<-2303, -1609, -1204, -916, -693, -511, -357, -223, -105, 0, 95,
      182, 262, 336, 405, 470, 531, 588, 642, 693, 742, 788>>

\* np.log(j / 10): -Inf at 0, NaN below 0
Log(j) ==
    IF j < 0 THEN ZNaN
    ELSE IF j = 0 THEN ZInf(-1)
    ELSE ZFin(LnTable[j])

\* a - b
Minus(a, b) ==
    IF a.k = "nan" \/ b.k = "nan" THEN ZNaN
    ELSE IF a.k = "inf" /\ b.k = "inf"
         THEN IF a.s = b.s THEN ZNaN ELSE ZInf(a.s)
    ELSE IF a.k = "inf" THEN ZInf(a.s)
    ELSE IF b.k = "inf" THEN ZInf(-b.s)
    ELSE ZFin(a.v - b.v)

\* _r_to_z(r): 0.5 * (np.log(1 + r) - np.log(1 - r)), in units of 1/2000
RToZ(rt) == Minus(Log(10 + rt), Log(10 - rt))

\* norm.ppf(q) for q in thousandths, in thousandths
NormPpf(q) ==
    CASE q = 900 -> 1282
      [] q = 950 -> 1645
      [] q = 975 -> 1960
      [] q = 995 -> 2576

\* _z_score(ci): diff = (100 - ci) / 2; norm.ppf((100 - diff) / 100)
ZScore(c) == NormPpf(1000 - 5 * (100 - c))

\* faulty variant: the difference without np.abs
DifferenceSigned(z1, z2) == Minus(z1, z2)

\* difference = np.abs(z1 - z2)
Difference(z1, z2) ==
    LET d == Minus(z1, z2)
    IN  IF d.k = "fin" THEN ZFin(Abs(d.v))
        ELSE IF d.k = "inf" THEN ZInf(1)
        ELSE d

\* zo > confidence for zo = difference / np.sqrt(2 * (1 / (N - 3))) and
\* N # 3: the square root of a negative number is NaN, and NaN > c is False;
\* for N > 3, d / 2000 / sqrt(2 / (N - 3)) > c / 1000 is decided on the
\* squares when d is positive
Exceeds(d, NN, c) ==
    IF NN < 3 \/ d.k = "nan" THEN FALSE
    ELSE IF d.k = "inf" THEN d.s > 0
    ELSE d.v > 0 /\ d.v * d.v * (NN - 3) > 8 * c * c

\* the value at cell c of an array broadcast to a grid: a single number is
\* repeated
Bcast(f, c) == IF f.dims = <<>> THEN f.v[1] ELSE f.v[c]

\* the axes of z1 - z2
BcastDims(a, b) == IF a.dims = <<>> THEN b.dims ELSE a.dims

\* z_significance(a, b, NN, c).  Line 429: 1 / (N - 3) raises
\* ZeroDivisionError for N = 3.  Lines 430-431: confidence is
\* np.zeros_like(zo), and confidence[:] = ... raises IndexError for an array
\* without axes.
ZSignificance(a, b, NN, c) ==
    IF NN = 3 THEN [err |-> "ZeroDivisionError", sig |-> <<>>]
    ELSE IF BcastDims(a, b) = <<>> THEN [err |-> "IndexError", sig |-> <<>>]
    ELSE [err |-> "none",
          sig |-> [i \in 1..Max(Len(a.v), Len(b.v)) |->
                      Exceeds(Difference(RToZ(Bcast(a, i)), RToZ(Bcast(b, i))),
                              NN, ZScore(c))]]

\* correlation coefficients -1.1, -1.0, ..., 1.1, in tenths
Tenths == (-11)..11

CoarseTenths == {-10, -9, 0, 1, 9, 10, 11}

SampleCounts == {2, 3, 4, 10, 50}

Confidences == {80, 90, 95, 99}

\* the variables of the correlation functions when another function is called
CorrVars0 ==
    /\ xtype = "DataArray" /\ ytype = "DataArray"
    /\ x = NoField /\ y = NoField /\ coord = NoCoord
    /\ lag = 0 /\ return_p = FALSE /\ two_sided = TRUE /\ nvars = 0
    /\ xdims = <<>>
    /\ Locals0

\* z_significance(r1, r2, N, ci) on two single numbers or on two arrays of
\* one element
InitZPair ==
    /\ fn = "z_significance"
    /\ \E a \in Tenths, b \in Tenths, d \in {<<>>, <<"lat">>} :
          r1 = [dims |-> d, v |-> <<a>>] /\ r2 = [dims |-> d, v |-> <<b>>]
    /\ Nz \in SampleCounts
    /\ ci \in Confidences
    /\ sig = <<>>
    /\ CorrVars0 /\ TauVars0 /\ PolyVars0

\* z_significance(r1, r2, N, ci) on a grid of two cells and a second field
\* that is a single number or a grid
InitZGrid ==
    /\ fn = "z_significance"
    /\ \E a \in CoarseTenths, b \in CoarseTenths :
          r1 = [dims |-> <<"lat">>, v |-> <<a, b>>]
    /\ \/ \E a \in CoarseTenths : r2 = [dims |-> <<>>, v |-> <<a>>]
       \/ \E a \in CoarseTenths, b \in CoarseTenths :
             r2 = [dims |-> <<"lat">>, v |-> <<a, b>>]
    /\ Nz \in SampleCounts
    /\ ci \in Confidences
    /\ sig = <<>>
    /\ CorrVars0 /\ TauVars0 /\ PolyVars0

InitZ == InitZPair \/ InitZGrid

corrvars == <<slices, normal, shifted, operands, r, sigvars>>

\* lines 427-433
ZSigApply ==
    /\ fn = "z_significance" /\ pc = "start"
    /\ LET z == ZSignificance(r1, r2, Nz, ci)
       IN  /\ err' = z.err
           /\ sig' = z.sig
           /\ pc' = IF z.err # "none" THEN "error" ELSE "done"
    /\ UNCHANGED <<inputs, corrvars, r1, r2, Nz, ci, tauvars, polyvars>>

NextZ == ZSigApply

SpecZ == InitZ /\ [][NextZ]_vars

\* ---- xr_decorrelation_time (climpred lines 366-389) ----
\* xr_autocorr(f, lag=lagv) as a function: the exception it raises, or r
XrAutocorr(f, lagv) ==
    LET s == LagSlice(f, f, lagv, DimSize(f))
        a == AssignDim(s.normal, s.shifted, DimSize(f), lagv)
    IN  [err |-> a.err,
         r   |-> IF a.err # "none" THEN NoField
                 ELSE PearsonR(a.normal.data, a.shifted.data)]

\* da.mean(dim) / da.mean(dim) for one cell: 0 / 0 is NaN
OneCell(v) == IF Sum(v) = 0 THEN NaN ELSE One

\* the terms base ** exp of one cell that .sum('it') adds: the sum skips NaN
RECURSIVE SkipNaN(_)
SkipNaN(s) ==
    IF Len(s) = 0 THEN <<>>
    ELSE IF IsNaN(Head(s).base) THEN SkipNaN(Tail(s))
    ELSE <<Head(s)>> \o SkipNaN(Tail(s))

\* one + 2 * sum for one cell, kept as the terms of the sum: NaN when `one`
\* is NaN
TauCell(o, terms) ==
    IF IsNaN(o) THEN [k |-> "nan", terms |-> <<>>]
    ELSE [k |-> "fin", terms |-> SkipNaN(terms)]

SignedVals == (-MaxVal)..MaxVal

\* xr_decorrelation_time(da, r=max_lag) on a single series or on a grid whose
\* second cell holds 1, 2, ..., m
InitTau ==
    /\ fn = "xr_decorrelation_time"
    /\ xtype \in Types /\ ytype = xtype
    /\ \E m \in Lens :
         /\ \E xs \in [1..m -> SignedVals] :
              /\ x \in {<<xs>>, <<xs, Arange(1, m + 1)>>}
              /\ y = x
         /\ coord \in CoordKinds(m)
    /\ max_lag \in 1..MaxIter
    /\ one = <<>> /\ it = <<>> /\ tau = <<>>
    /\ lag = 0 /\ return_p = FALSE /\ two_sided = TRUE /\ nvars = 0
    /\ xdims = GridDims(x)
    /\ Locals0
    /\ ZVars0 /\ PolyVars0

\* line 386
TauCheck ==
    /\ fn = "xr_decorrelation_time" /\ pc = "start"
    /\ err' = CheckXarray(xtype)
    /\ pc' = IF err' # "none" THEN "error" ELSE "checked"
    /\ UNCHANGED <<inputs, zvars, polyvars, corrvars, tauvars>>

\* line 387
TauOne ==
    /\ fn = "xr_decorrelation_time" /\ pc = "checked"
    /\ one' = [c \in DOMAIN x |-> OneCell(x[c])]
    /\ pc' = "one"
    /\ UNCHANGED <<inputs, zvars, polyvars, corrvars, err, max_lag, it, tau>>

\* lines 388-389, one element of the list: xr_autocorr(da, lag=i) ** i for
\* the next i in range(1, r)
TauAutocorr ==
    /\ fn = "xr_decorrelation_time" /\ pc = "one"
    /\ Len(it) + 1 < max_lag
    /\ LET i == Len(it) + 1
           a == XrAutocorr(x, i)
       IN  /\ err' = a.err
           /\ pc' = IF a.err # "none" THEN "error" ELSE "one"
           /\ it' = IF a.err # "none" THEN it
                    ELSE Append(it, [c \in DOMAIN x |->
                                        [base |-> a.r[c], exp |-> i]])
    /\ UNCHANGED <<inputs, zvars, polyvars, corrvars, max_lag, one, tau>>

\* lines 388-389, the list is complete: xr.concat raises ValueError for an
\* empty list; otherwise one + 2 * xr.concat(...).sum('it')
TauSum ==
    /\ fn = "xr_decorrelation_time" /\ pc = "one"
    /\ Len(it) + 1 >= max_lag
    /\ IF it = <<>>
       THEN err' = "ValueError" /\ pc' = "error" /\ tau' = tau
       ELSE /\ tau' = [c \in DOMAIN x |->
                          TauCell(one[c], [i \in 1..Len(it) |-> it[i][c]])]
            /\ pc' = "done"
            /\ err' = err
    /\ UNCHANGED <<inputs, zvars, polyvars, corrvars, max_lag, one, it>>

NextTau ==
    \/ TauCheck
    \/ TauOne
    \/ TauAutocorr
    \/ TauSum

SpecTau == InitTau /\ [][NextTau]_vars

\* ---- xr_rm_poly (climpred lines 205-284) ----
\* An array element is [nan, v]: NaN, or the integer v.  An array as it is
\* passed is [data, lat]: the series of its cells and, for xr_cos_weight,
\* the values of its latitude coordinate.
NaNElem == [nan |-> TRUE, v |-> 0]

Num(i) == [nan |-> FALSE, v |-> i]

Elems == {NaNElem} \cup {Num(i) : i \in Vals}

\* a rational number num / den in lowest terms, den > 0; NaN
QNaN == [k |-> "nan", num |-> 0, den |-> 1]

Frac(num, den) ==
    LET g == GCD(Abs(num), Abs(den))
    IN  [k |-> "fin", num |-> Sgn(den) * (num \div g), den |-> Abs(den) \div g]

\* y[np.isnan(y)] = 0 on one series
FillZero(s) == [i \in 1..Len(s) |-> IF s[i].nan THEN Num(0) ELSE s[i]]

\* the integer values of a series without NaN
Values(s) == [i \in 1..Len(s) |-> s[i].v]

\* element i of y - fit for one series: fit is the least-squares polynomial of
\* degree ord through the points (0, ys[1]), (1, ys[2]), ...; a series with no
\* more points than coefficients is fitted exactly
Residual(ys, ord, i) ==
    LET m   == Len(ys)
        xs  == Arange(0, m)
        Sy  == Sum(ys)
        Sx  == Sum(xs)
        D   == m * Dot(xs, xs) - Sx * Sx
        B   == m * Dot(xs, ys) - Sx * Sy
    IN  IF m <= ord THEN Frac(0, 1)
        ELSE IF ord = 0 THEN Frac(m * ys[i] - Sy, m)
        ELSE Frac(m * D * ys[i] - (D * Sy - B * Sx) - m * B * xs[i], m * D)

\* detrended_ts[detrended_ts == 0] = np.nan
ZeroToNaN(q) == IF q.k = "fin" /\ q.num = 0 THEN QNaN ELSE q

\* lines 275-280 for one series
Detrend(ys, ord) == [i \in 1..Len(ys) |-> ZeroToNaN(Residual(ys, ord, i))]

Orders == {0, 1}

\* a cell of land: NaN at every time
Land(m) == [i \in 1..m |-> NaNElem]

\* the variables of the other functions when xr_rm_poly or xr_cos_weight is
\* called
PolyOthers0 ==
    /\ ytype = xtype
    /\ x = NoField /\ y = NoField /\ coord = NoCoord
    /\ lag = 0 /\ return_p = FALSE /\ two_sided = TRUE /\ nvars = 0
    /\ xdims = <<>>
    /\ Locals0
    /\ ZVars0 /\ TauVars0

\* xr_rm_poly(ds, order) on a single series or on a grid with a cell of land;
\* the axis of the fit is the leading axis of a DataArray
InitRmPoly ==
    /\ fn = "xr_rm_poly"
    /\ xtype \in {"DataArray", "Dataset", "ndarray"}
    /\ \E m \in Lens : \E s \in [1..m -> Elems] :
         \E d \in {<<s>>, <<s, Land(m)>>} : ds = [data |-> d, lat |-> <<>>]
    /\ buf = ds
    /\ order \in Orders
    /\ one_dimensional = TRUE
    /\ lat = <<>> /\ detrended_ts = <<>> /\ aw_da = <<>>
    /\ PolyOthers0

\* line 225
RmPolyCheck ==
    /\ fn = "xr_rm_poly" /\ pc = "start"
    /\ err' = CheckXarray(xtype)
    /\ pc' = IF err' # "none" THEN "error" ELSE "checked"
    /\ UNCHANGED <<fn, xtype, ytype, x, y, coord, lag, two_sided, return_p,
                   nvars, xdims, corrvars, zvars, tauvars, polyvars>>

\* lines 260-274.  For a DataArray with the axis of the fit in front,
\* np.asarray(y) is the array the DataArray holds and the reshape is a view
\* of it, so the NaNs of the caller's array are overwritten; for a Dataset
\* xr.concat has made a new array.
RmPolyFill ==
    /\ fn = "xr_rm_poly" /\ pc = "checked"
    /\ y' = [c \in DOMAIN ds.data |-> Values(FillZero(buf.data[c]))]
    /\ buf' = IF xtype = "DataArray"
              THEN [buf EXCEPT !.data =
                        [c \in DOMAIN ds.data |-> FillZero(buf.data[c])]]
              ELSE buf
    /\ pc' = "filled"
    /\ UNCHANGED <<fn, xtype, ytype, x, coord, lag, two_sided, return_p,
                   nvars, xdims, corrvars, zvars, tauvars, err,
                   ds, order, one_dimensional, lat, detrended_ts, aw_da>>

\* lines 275-284
RmPolyFit ==
    /\ fn = "xr_rm_poly" /\ pc = "filled"
    /\ detrended_ts' = [c \in DOMAIN y |-> Detrend(y[c], order)]
    /\ pc' = "done"
    /\ UNCHANGED <<fn, xtype, ytype, x, y, coord, lag, two_sided, return_p,
                   nvars, xdims, corrvars, zvars, tauvars, err,
                   ds, buf, order, one_dimensional, lat, aw_da>>

\* ---- xr_cos_weight (esmtools lines 58-93) ----
\* the latitudes 0, 30, 60, ... of the rows of the grid
Latitudes(m) == [i \in 1..m |-> Num(30 * (i - 1))]

\* lat[np.isnan(da)] = np.nan
MaskLat(latv, dav) ==
    [i \in 1..Len(latv) |-> IF dav[i].nan THEN NaNElem ELSE latv[i]]

RECURSIVE Keep(_, _)
Keep(s, keep) ==
    IF Len(s) = 0 THEN <<>>
    ELSE IF keep[1] THEN <<Head(s)>> \o Keep(Tail(s), Tail(keep))
    ELSE Keep(Tail(s), Tail(keep))

\* (da * cos_lat).sum() / np.nansum(np.cos(np.deg2rad(lat))), kept as the
\* terms of its two sums: the values with their latitudes, the latitudes
AreaWeighted(dav, latv) ==
    LET ok == [i \in 1..Len(latv) |-> ~latv[i].nan /\ ~dav[i].nan]
    IN  [num |-> Keep([i \in 1..Len(latv) |-> <<dav[i].v, latv[i].v>>], ok),
         den |-> Keep([i \in 1..Len(latv) |-> latv[i].v],
                      [i \in 1..Len(latv) |-> ~latv[i].nan])]

\* xr_cos_weight(da, one_dimensional=...) on the rows of a grid with one
\* longitude
InitCosWeight ==
    /\ fn = "xr_cos_weight"
    /\ xtype = "DataArray"
    /\ \E m \in Lens : \E s \in [1..m -> Elems] :
         ds = [data |-> <<s>>, lat |-> Latitudes(m)]
    /\ buf = ds
    /\ order = 0
    /\ one_dimensional \in BOOLEAN
    /\ lat = <<>> /\ detrended_ts = <<>> /\ aw_da = <<>>
    /\ PolyOthers0

\* lines 85-93.  np.meshgrid returns new arrays, so with one_dimensional the
\* NaNs are written into a copy of the latitudes.  Without it lat is the
\* coordinate of da and the key np.isnan(da) is a Boolean DataArray with the
\* two axes of the grid, which xarray refuses as an index (IndexError).
CosWeight ==
    /\ fn = "xr_cos_weight" /\ pc = "start"
    /\ IF one_dimensional
       THEN /\ lat' = MaskLat(buf.lat, buf.data[1])
            /\ aw_da' = AreaWeighted(buf.data[1], lat')
            /\ pc' = "done" /\ err' = err
       ELSE /\ lat' = buf.lat
            /\ aw_da' = aw_da
            /\ pc' = "error" /\ err' = "IndexError"
    /\ UNCHANGED <<fn, xtype, ytype, x, y, coord, lag, two_sided, return_p,
                   nvars, xdims, corrvars, zvars, tauvars,
                   ds, buf, order, one_dimensional, detrended_ts>>

InitPoly == InitRmPoly \/ InitCosWeight

NextPoly ==
    \/ RmPolyCheck
    \/ RmPolyFill
    \/ RmPolyFit
    \/ CosWeight

SpecPoly == InitPoly /\ [][NextPoly]_vars

\* ======================= claims =======================
Zero == Root(0, 0, 1)

Cells == DOMAIN x

\* the call was given xarray objects
GoodTypes == IsXarray(xtype) /\ IsXarray(ytype)

\* variance of a series, times Len^2
Var(s) == Len(s) * Dot(s, s) - Sum(s) * Sum(s)

\* C1: xr_corr(x, x, lag=0, return_p=True) has r = 1 and p = 0 at every grid
\* cell, for every series x that is not constant (the series 1, 2, ..., 10
\* among them).
C1_SelfCorrelation ==
    (fn = "xr_corr" /\ pc = "done" /\ return_p /\ lag = 0 /\ x = y)
        => \A c \in Cells : Var(x[c]) # 0 => r[c] = One /\ PIsZero(p[c])

\* C2: the effective sample size is at most the sample count n, whatever
\* the two lag-1 autocorrelations are (NaN and a product of -1, which
\* divides by zero, included), and it is n when both autocorrelations are 0.
C2_NeffAtMostN ==
    \A c \in DOMAIN n_eff :
        /\ n_eff[c] <= n
        /\ (xauto[c] = Zero /\ yauto[c] = Zero) => n_eff[c] = n

C2_Witness ==
    /\ fn = "effective_n" /\ pc = "done"
    /\ xauto[1] = Zero /\ yauto[1] = Zero
    /\ n > 1 /\ n_eff[1] = n

\* C3: for a correlation axis of length n >= 3 the effective sample size
\* lies in [3, n].
C3_NeffAtLeast3 ==
    \A c \in DOMAIN n_eff : n >= 3 => (3 <= n_eff[c] /\ n_eff[c] <= n)

\* C4: for a lag k with 0 <= k < n, the two series xr_corr correlates are
\* x[0 : n-k] and y[k : n], both of length n-k.
C4_LagPair ==
    (fn = "xr_corr" /\ operands # <<>> /\ lag < DimSize(x))
        => \A c \in Cells :
              /\ operands[1][c] = SubSeq(x[c], 1, DimSize(x) - lag)
              /\ operands[2][c] = SubSeq(y[c], lag + 1, DimSize(x))
              /\ Len(operands[1][c]) = DimSize(x) - lag
              /\ Len(operands[2][c]) = DimSize(x) - lag

C4_Witness ==
    /\ fn = "xr_corr" /\ pc = "done"
    /\ lag = 2 /\ DimSize(x) = 4
    /\ operands[1] # operands[2]
    /\ r # NoField

\* C5: with a lag k >= n, xr_corr and xr_autocorr end in an error that is
\* raised before any slicing of the arrays.
C5_InvalidLag ==
    (fn \in {"xr_corr", "xr_autocorr"} /\ GoodTypes /\ lag >= DimSize(x))
        => /\ slices = 0
           /\ pc # "done"

\* the lag alignment of xr_corr / xr_autocorr has produced its two outputs
Aligned ==
    /\ fn \in {"xr_corr", "xr_autocorr"}
    /\ pc \in {"aligned", "correlated", "pvalued", "done"}
    /\ normal # Empty

\* C6 (as claimed): with coordinate labels on the correlation axis, both
\* lag-aligned outputs carry the synthetic labels 1..(n-k).
C6_SyntheticLabels ==
    (Aligned /\ coord.has /\ lag < DimSize(x))
        => /\ normal.lab = Arange(1, DimSize(x) - lag + 1)
           /\ shifted.lab = Arange(1, DimSize(x) - lag + 1)

\* C6 (amended): with coordinate labels on the correlation axis, both
\* lag-aligned outputs carry the first n-k labels of the input.
C6_ReusedLabels ==
    (Aligned /\ coord.has /\ lag < DimSize(x))
        => /\ normal.lab = SubSeq(coord.lab, 1, DimSize(x) - lag)
           /\ shifted.lab = SubSeq(coord.lab, 1, DimSize(x) - lag)

C6_Witness ==
    /\ Aligned /\ coord.has /\ pc = "done"
    /\ lag = 1 /\ DimSize(x) = 3
    /\ coord.lab = <<2001, 2002, 2003>>
    /\ shifted.lab = <<2001, 2002>>

\* C7: without a coordinate on the correlation axis, the alignment of
\* xr_corr and xr_autocorr completes for every lag k with 0 <= k < n, the
\* synthetic index having the length of the lag-aligned series.
C7_DummyIndexFits ==
    (fn \in {"xr_corr", "xr_autocorr"} /\ GoodTypes /\ ~coord.has
        /\ lag < DimSize(x))
        => /\ err = "none"
           /\ Aligned => Len(normal.lab) = DimSize(x) - lag

\* C8 (as claimed): xr_corr given an x or y that is no xarray object fails
\* with a TypeError, before any slicing or numeric work.
C8_TypeError ==
    (fn = "xr_corr" /\ ~GoodTypes /\ pc # "start")
        => /\ pc = "error" /\ err = "TypeError"
           /\ slices = 0 /\ operands = <<>> /\ r = NoField

\* C8 (amended): xr_corr given an x or y that is no xarray object fails
\* with an IOError, before any slicing or numeric work.
C8_IOError ==
    (fn = "xr_corr" /\ ~GoodTypes /\ pc # "start")
        => /\ pc = "error" /\ err = "IOError"
           /\ slices = 0 /\ operands = <<>> /\ r = NoField

C8_Witness ==
    /\ fn = "xr_corr" /\ pc = "error" /\ err = "IOError"
    /\ IsXarray(xtype) /\ ~IsXarray(ytype)
    /\ DimSize(x) > 1

\* C9: xr_eff_pearsonr raises its variable-count error (ValueError) for a
\* Dataset with 0, 1, 3 or more data variables and accepts one with exactly
\* two data variables, with or without the coordinate of its axis.
C9_VariableCount ==
    (fn = "xr_eff_pearsonr" /\ pc # "start")
        => /\ nvars # 2 => (pc = "error" /\ err = "ValueError" /\ r = NoField)
           /\ nvars = 2 => err = "none"

\* a cell with a numeric degeneracy: zero variance (r is NaN), |r| = 1, or
\* n_eff < 3
Degenerate(c) == IsNaN(r[c]) \/ IsUnit(r[c]) \/ n_eff[c] < 3

\* r, t or p of the cell is NaN or +-Inf
NonFinite(c) == IsNaN(r[c]) \/ t[c].k # "fin" \/ PIsNaN(p[c])

\* r and p of cell c are what the call on that cell's series alone gives
AsAlone(c) ==
    /\ r[c] = PearsonR(<<operands[1][c]>>, <<operands[2][c]>>)[1]
    /\ p[c] = XrEffPValue(<<x[c]>>, <<y[c]>>, <<r[c]>>, two_sided).p[1]

C11_Symmetric ==
    (fn = "z_significance" /\ pc # "start")
        => LET swapped == ZSignificance(r2, r1, Nz, ci)
           IN  err = swapped.err /\ sig = swapped.sig

\* the two fields differ, one is broadcast against the other, and the
\* result is True at one cell and False at the other
C11_Witness ==
    /\ fn = "z_significance" /\ pc = "done"
    /\ Len(r1.v) = 2 /\ r2.dims = <<>>
    /\ r1.v[1] # r2.v[1]
    /\ sig[1] /\ ~sig[2]

\* the two-sided normal quantile at confidence c: the inverse of the normal
\* distribution function at 1 - (100 - c) / 200, in thousandths
TwoSidedCritical(c) ==
    CASE c = 80 -> 1282
      [] c = 90 -> 1645
      [] c = 95 -> 1960
      [] c = 99 -> 2576

\* twice the Fisher transform of rt / 10 for -1 < rt / 10 < 1, in thousandths
Fisher2(rt) == LnTable[10 + rt] - LnTable[10 - rt]

\* the result at a cell with the correlations a / 10 and b / 10 is what the
\* formula of the test gives: for correlations strictly between -1 and 1,
\* (2 z1 - 2 z2)^2 * (N - 3) > 8 * critical^2; a correlation of 1 or -1 has
\* an infinite z, which exceeds unless both z are the same infinity
AsFormula(res, a, b) ==
    LET g == Fisher2(a) - Fisher2(b)
    IN  /\ (Abs(a) < 10 /\ Abs(b) < 10)
             => (res <=> g * g * (Nz - 3) >
                            8 * TwoSidedCritical(ci) * TwoSidedCritical(ci))
        /\ (Abs(a) <= 10 /\ Abs(b) <= 10 /\ (Abs(a) = 10 \/ Abs(b) = 10))
             => (res <=> a # b)

\* C12: for N > 3, z_significance returns at every cell whether
\* |z1 - z2| / sqrt(2 / (N - 3)) exceeds the two-sided normal critical value
\* at confidence ci, z the Fisher transform 0.5 * (ln(1 + r) - ln(1 - r));
\* r1 = 0.9, r2 = 0.1, N = 50, ci = 90 gives True.
C12_FisherTest ==
    (fn = "z_significance" /\ pc # "start" /\ Nz > 3)
        => /\ pc = "done"
           /\ \A c \in DOMAIN sig : AsFormula(sig[c], Bcast(r1, c), Bcast(r2, c))
           /\ (r1.v = <<9>> /\ r2.v = <<1>> /\ Nz = 50 /\ ci = 90)
                 => sig = <<TRUE>>

\* on arrays with an axis the call returns what the formula gives
C12_OnArrays ==
    (fn = "z_significance" /\ pc # "start" /\ Nz > 3
        /\ BcastDims(r1, r2) # <<>>)
        => /\ pc = "done"
           /\ \A c \in DOMAIN sig : AsFormula(sig[c], Bcast(r1, c), Bcast(r2, c))

\* the lag-k autocorrelation of a series: the correlation of its first n-k
\* values with its last n-k values
AutocorrAt(s, k) ==
    PearsonRCell(SubSeq(s, 1, Len(s) - k), SubSeq(s, k + 1, Len(s)))

\* C13: for every max_lag >= 1, xr_decorrelation_time returns at every cell
\* 1 + 2 * (the sum over k = 1 .. max_lag-1 of the lag-k autocorrelation to
\* the power k); with max_lag = 1 the sum is empty and the result is 1.
C13_DecorrelationTime ==
    (fn = "xr_decorrelation_time" /\ GoodTypes /\ pc \in {"done", "error"})
        => /\ pc = "done"
           /\ \A c \in Cells :
                /\ tau[c].k = "fin"
                /\ tau[c].terms =
                     [k \in 1..(max_lag - 1) |->
                         [base |-> AutocorrAt(x[c], k), exp |-> k]]

\* C14: no public function modifies its input array or its coordinates:
\* during and after the call the caller's array holds what was passed,
\* NaNs included.
C14_InputsUnchanged == buf = ds

\* C17: an element of the array xr_rm_poly returns is NaN if and only if the
\* element of the input at the same place is NaN.
C17_NaNRestored ==
    (fn = "xr_rm_poly" /\ pc = "done")
        => \A c \in DOMAIN ds.data : \A i \in 1..Len(ds.data[c]) :
              (detrended_ts[c][i].k = "nan") <=> ds.data[c][i].nan

\* C15: when xr_corr returns p at a lag k > 0, the sample count of the
\* effective sample size is the length n of the un-truncated x (the lag-1
\* autocorrelations are those of the whole centred x and y); t is
\* r * sqrt((n_eff - 2) / (1 - r^2)) with the r of the lag-aligned series;
\* p is taken from the survival function at |t| with n_eff - 1 degrees of
\* freedom; and the two-sided p is twice the one-sided p of the same inputs.
C15_PValueAtLag ==
    (fn = "xr_corr" /\ return_p /\ lag > 0 /\ pc \in {"pvalued", "done"})
        => /\ n = DimSize(x)
           /\ \A c \in Cells :
                LET other == XrEffPValue(x, y, r, ~two_sided).p[c]
                IN  /\ xauto[c] = AutocorrAt(CentreCell(x[c]), 1)
                    /\ yauto[c] = AutocorrAt(CentreCell(y[c]), 1)
                    /\ n_eff[c] = EffectiveN(Len(x[c]), xauto[c], yauto[c])
                    /\ r[c] = PearsonRCell(SubSeq(x[c], 1, Len(x[c]) - lag),
                                           SubSeq(y[c], lag + 1, Len(x[c])))
                    /\ (t[c].k = "fin" /\ ~IsUnit(r[c]))
                         => /\ t[c].s = r[c].s * Sgn(n_eff[c] - 2)
                            /\ t[c].n * (r[c].d - r[c].n)
                                 = t[c].d * r[c].n * (n_eff[c] - 2)
                    /\ t[c].k = "inf" => (IsUnit(r[c]) /\ n_eff[c] > 2)
                    /\ p[c].k = "sf"
                         => /\ p[c].df = n_eff[c] - 1
                            /\ p[c].n = t[c].n /\ p[c].d = t[c].d
                            /\ other.k = "sf" /\ other.df = p[c].df
                            /\ other.n = p[c].n /\ other.d = p[c].d
                            /\ IF two_sided THEN p[c].mult = 2 * other.mult
                               ELSE other.mult = 2 * p[c].mult
                    /\ p[c].k = "nan"
                         => (other.k = "nan" /\ (IsNaN(t[c]) \/ n_eff[c] <= 1))

\* a lag of 1 on series of length 4: r from 3 pairs, n = 4, a t that is
\* finite and not 0, a two-sided p
C15_Witness ==
    /\ fn = "xr_corr" /\ return_p /\ pc = "done"
    /\ lag = 1 /\ n = 4 /\ DimSize(operands[1]) = 3
    /\ two_sided
    /\ t[1].k = "fin" /\ t[1].s # 0
    /\ p[1].k = "sf" /\ p[1].df = n_eff[1] - 1

\* C16: for inputs of any rank, the p that xr_corr returns with
\* return_p=True has the axis names of r, the axes of the input other than
\* the correlation axis, in the same order: the loop over the placeholder
\* names dim_0, dim_1, ... completes and renames every one of them.
C16_AxisNames ==
    (fn = "xr_corr" /\ return_p /\ p # NoField /\ pc # "pvalued")
        => /\ pc = "done"
           /\ pdims = xdims

\* with axes that carry given names the loop restores them
C16_GivenNames ==
    (fn = "xr_corr" /\ return_p /\ p # NoField /\ pc # "pvalued"
        /\ xdims = Named(Len(xdims)))
        => /\ pc = "done"
           /\ pdims = xdims

====
